---- MODULE Spec2Model ----
(***************************************************************************)
(* A model of src/src/App.tsx: the retrying HTTP client fetchData, the     *)
(* day-keyed token apiKey, the chunking helper splitArray and the React    *)
(* component App (its state, its four effects, its event handlers).        *)
(*                                                                         *)
(* React is modelled as it schedules this component: an event handler or   *)
(* a promise callback sets state, the component is rendered and committed, *)
(* and then the effects whose dependencies changed run against the values  *)
(* of that render (their closures); the state they set is rendered next.   *)
(* A commit with effects still to run is a state of the model; nothing     *)
(* else happens before they have run.                                      *)
(***************************************************************************)
EXTENDS Integers, Sequences, FiniteSets, TLC

VARIABLES
    currentPage, isLastPage, isLoading,   \* useState, lines 70-72
    productIds, products,                 \* useState, lines 74-75
    arrayOfChunks, isSearch, filters,     \* useState, lines 77-79
    filterRef,       \* filterRef.current, line 82
    apiKey,          \* the module constant of line 30, computed when the module loads
    today,           \* the UTC date of the environment
    inflight,        \* the calls of fetchData that have not been handled yet, oldest first
    effects,         \* the effects that have to run after the last commit
    pidsRef,         \* identity of the productIds array: p >= 0 when it is the object
                     \* arrayOfChunks[p], -1 when it is an array of its own
    events,          \* history: number of events of the environment so far: clicks,
                     \* select changes, midnights, calls with a failed attempt
    pidsAct,         \* history: the user action the id page comes from (0 = the mount)
    lastEvent,       \* history: the response whose handling the last step belongs to
    filterShown,     \* history: a filter response has been handled since the last
                     \* click on the search button
    lastAct,         \* history: the most recent user action that changed the page or
                     \* submitted a search (0 = the mount)
    prodAct,         \* history: the user action the products come from
    split            \* the call of splitArray under test (SplitSpec only)

vars == <<currentPage, isLastPage, isLoading, productIds, products, arrayOfChunks,
          isSearch, filters, filterRef, apiKey, today, inflight,
          effects, pidsRef, events, pidsAct, lastEvent, filterShown, lastAct, prodAct,
          split>>

uiVars == <<currentPage, isLastPage, isLoading, productIds, products, arrayOfChunks,
            isSearch, filters, pidsRef, pidsAct, filterShown, lastAct, prodAct>>

----------------------------------------------------------------------------
(* Program constants *)

MAX_ITEMS_PER_PAGE == 50

MAX_CONNECTIONS_RETRY == 3

(* Bounds of the model *)

\* events of the environment in one session: clicks on the buttons, changes of
\* the select, midnights, calls of fetchData with a failed attempt
MaxEvents == 2

MaxDayTicks == 1     \* UTC midnights passed during one session

MaxSplitLen == 4     \* length of the arrays given to splitArray in SplitSpec

MaxSplitChunk == 3   \* chunk sizes given to splitArray in SplitSpec

----------------------------------------------------------------------------
(* Generic helpers *)

Min(a, b) == IF a < b THEN a ELSE b

Range(s) == {s[i] : i \in 1..Len(s)}

\* the sequence a, a+1, ..., b
Ids(a, b) == [i \in 1..(b - a + 1) |-> a + i - 1]

\* Array.prototype.slice(start, end) for 0 <= start <= end
slice(arr, start, end) == SubSeq(arr, start + 1, Min(end, Len(arr)))

RECURSIVE Flatten(_)
Flatten(ss) == IF ss = <<>> THEN <<>> ELSE Head(ss) \o Flatten(Tail(ss))

----------------------------------------------------------------------------
(* splitArray, lines 61-67: the for loop, i the loop variable *)

RECURSIVE splitLoop(_, _, _, _)
splitLoop(arr, chunkSize, i, chunks) ==
    IF i < Len(arr)
    THEN splitLoop(arr, chunkSize, i + chunkSize,
                   Append(chunks, slice(arr, i, i + chunkSize)))
    ELSE chunks

\* a slip in the slice bound: every group is one element short
splitArrayShort(arr, chunkSize) ==
    LET RECURSIVE loop(_, _)
        loop(i, chunks) ==
            IF i < Len(arr)
            THEN loop(i + chunkSize, Append(chunks, slice(arr, i, i + chunkSize - 1)))
            ELSE chunks
    IN loop(0, <<>>)

\* a slip in the slice bound the other way: every group takes one element more
splitArrayLong(arr, chunkSize) ==
    LET RECURSIVE loop(_, _)
        loop(i, chunks) ==
            IF i < Len(arr)
            THEN loop(i + chunkSize, Append(chunks, slice(arr, i, i + chunkSize + 1)))
            ELSE chunks
    IN loop(0, <<>>)

splitArray(arr, chunkSize) == splitLoop(arr, chunkSize, 0, <<>>)

----------------------------------------------------------------------------
(* The token, lines 23-30 *)

\* String.prototype.padStart(targetLength, padString) for a one-character pad
RECURSIVE padStart(_, _, _)
padStart(s, targetLength, padString) ==
    IF Len(s) < targetLength THEN padStart(padString \o s, targetLength, padString) ELSE s

\* a date is [year, month, day] with month as getUTCMonth gives it (0 = January)
formatDate(date) ==
    LET utcYear  == date.year
        utcMonth == padStart(ToString(date.month + 1), 2, "0")
        utcDay   == padStart(ToString(date.day), 2, "0")
    IN ToString(utcYear) \o utcMonth \o utcDay

\* crypto-js md5(...).toString(): the digest is kept symbolic, equal digests come
\* from equal messages
md5(message) == <<"md5", message>>

\* the expression of line 30, as a function of the date it is evaluated on
Token(date) == md5("Valantis_" \o formatDate(date))

\* the UTC date on which the module is loaded
LoadDate == [year |-> 2024, month |-> 11, day |-> 31]

IsLeap(y) == (y % 4 = 0 /\ y % 100 # 0) \/ y % 400 = 0

DaysInMonth(y, m) ==
    IF m = 1 THEN (IF IsLeap(y) THEN 29 ELSE 28)
    ELSE IF m \in {3, 5, 8, 10} THEN 30 ELSE 31

NextDay(date) ==
    IF date.day < DaysInMonth(date.year, date.month)
    THEN [date EXCEPT !.day = @ + 1]
    ELSE IF date.month < 11
         THEN [date EXCEPT !.month = @ + 1, !.day = 1]
         ELSE [year |-> date.year + 1, month |-> 0, day |-> 1]

RECURSIVE AddDays(_, _)
AddDays(date, k) == IF k = 0 THEN date ELSE AddDays(NextDay(date), k - 1)

----------------------------------------------------------------------------
(* fetchData, lines 33-59.  A call is a record: body is the request body,    *)
(* retryCount the parameter of the innermost call, status "pending" while    *)
(* an HTTP attempt is out, "resolved" once the promise is fulfilled with     *)
(* value, "rejected" once it is rejected.  attempts counts the HTTP          *)
(* attempts made, xAuth and sentOn are the header and the date of the last   *)
(* one, ok tells whether value is a parsed response body; act is the user    *)
(* action the call belongs to.                                               *)

Sentinel == [result |-> <<>>]

\* lines 35-42: one HTTP attempt is sent
sendAttempt(r) ==
    [r EXCEPT !.attempts = @ + 1, !.xAuth = apiKey, !.sentOn = today]

\* line 33, the outer call: retryCount = 0
fetchData(body, act) ==
    sendAttempt([body |-> body, retryCount |-> 0, attempts |-> 0, xAuth |-> <<>>,
                 sentOn |-> today, status |-> "pending", value |-> Sentinel,
                 ok |-> FALSE, act |-> act])

\* line 49: the body was read and parsed
returnJson(r, json) == [r EXCEPT !.status = "resolved", !.value = json, !.ok = TRUE]

\* a slip in line 51: one retry too many
catchErrorOneMore(r) ==
    IF r.retryCount <= MAX_CONNECTIONS_RETRY
    THEN sendAttempt([r EXCEPT !.retryCount = @ + 1])
    ELSE [r EXCEPT !.status = "resolved", !.value = Sentinel, !.ok = FALSE]

\* a slip in line 56: the error is thrown again once the retries are used up
catchErrorRethrow(r) ==
    IF r.retryCount < MAX_CONNECTIONS_RETRY
    THEN sendAttempt([r EXCEPT !.retryCount = @ + 1])
    ELSE [r EXCEPT !.status = "rejected", !.ok = FALSE]

\* lines 50-58: the catch block
catchError(r) ==
    IF r.retryCount < MAX_CONNECTIONS_RETRY
    THEN sendAttempt([r EXCEPT !.retryCount = @ + 1])
    ELSE [r EXCEPT !.status = "resolved", !.value = Sentinel, !.ok = FALSE]

\* the ways one attempt fails: fetch rejects, the status is not ok (line 44),
\* the body cannot be read or parsed (lines 45, 49)
Failures == {"network", "status", "body"}

----------------------------------------------------------------------------
(* The external API: the response body an attempt is answered with when it  *)
(* succeeds.  The API answers with a JSON object holding a result array;     *)
(* get_ids honours offset and limit.  Its data are fixed for a session: a    *)
(* catalogue of 100 entries (two full pages) whose first id is listed twice, *)
(* and two products under each of the ids of DuplicatedIds.                  *)

Product(id, n) == [id |-> id, brand |-> "brand", price |-> 100 * n, product |-> n]

Catalogue == <<1>> \o Ids(1, 99)

DuplicatedIds == {1, 101}

FieldResult == <<"product", "price">>

\* the ids matching a filter: a page and a short page for a product name, none
\* for a price
FilterResult(params) == IF params.field = "product" THEN Ids(101, 160) ELSE <<>>

\* the products under the ids asked for, in their order
RECURSIVE ItemsOf(_)
ItemsOf(ids) ==
    IF ids = <<>> THEN <<>>
    ELSE (IF Head(ids) \in DuplicatedIds
          THEN <<Product(Head(ids), 1), Product(Head(ids), 2)>>
          ELSE <<Product(Head(ids), 1)>>) \o ItemsOf(Tail(ids))

Response(body) ==
    IF body.action = "get_fields" THEN [result |-> FieldResult]
    ELSE IF body.action = "get_ids"
    THEN [result |-> slice(Catalogue, body.params.offset,
                           body.params.offset + body.params.limit)]
    ELSE IF body.action = "filter" THEN [result |-> FilterResult(body.params)]
    ELSE [result |-> ItemsOf(body.params.ids)]

----------------------------------------------------------------------------
(* The search box.  It is an uncontrolled input: the user edits it at any   *)
(* time and no handler runs, so what a read of its value gives is an input   *)
(* of the reader: any text the box can hold.  A text is a sequence of        *)
(* characters; Undefined is what the optional chain of line 130 gives while  *)
(* the form is not rendered.                                                 *)

Undefined == "undefined"

SearchTexts == {<<>>, <<"1", "2">>}

DigitValue == [c \in {"0", "1", "2", "3", "4", "5", "6", "7", "8", "9"} |->
                 CASE c = "0" -> 0 [] c = "1" -> 1 [] c = "2" -> 2 [] c = "3" -> 3
                   [] c = "4" -> 4 [] c = "5" -> 5 [] c = "6" -> 6 [] c = "7" -> 7
                   [] c = "8" -> 8 [] c = "9" -> 9]

IsDigit(c) == c \in DOMAIN DigitValue

\* Number.parseInt on an unsigned text: the leading digits, NaN when there are none
RECURSIVE parseDigits(_, _)
parseDigits(text, acc) ==
    IF text # <<>> /\ IsDigit(Head(text))
    THEN parseDigits(Tail(text), 10 * acc + DigitValue[Head(text)])
    ELSE acc

parseInt(text) ==
    IF text # <<>> /\ IsDigit(Head(text)) THEN parseDigits(text, 0) ELSE "NaN"

\* what an <input type="number"> accepts
IsNumeric(text) == \A i \in 1..Len(text) : IsDigit(text[i])

\* the form is rendered, and searchRef.current set, only with filters (line 171)
FormRendered == Len(filters) > 0

\* what line 130 can read: the input is of type number while the filter is price
\* (lines 160-163)
SearchValues ==
    IF FormRendered
    THEN {text \in SearchTexts : filterRef = "price" => IsNumeric(text)}
    ELSE {Undefined}

\* a string is truthy unless it is empty (line 131)
Truthy(searchValue) == searchValue # Undefined /\ searchValue # <<>>

----------------------------------------------------------------------------
(* The effects of App.  An effect reads the values of the committed render  *)
(* (the variables) and adds to u, the state and the calls the next render    *)
(* starts from; the set* calls of one pass are applied in order.             *)

\* Array.from(new Set(productIds)), line 100: a Set keeps a value unless it holds
\* it already, and lists its values in the order they were added
uniq(ids) ==
    LET numbered == [i \in 1..Len(ids) |-> <<i, ids[i]>>]
        added == SelectSeq(numbered, LAMBDA p : \A j \in 1..(p[1] - 1) : ids[j] # p[2])
    IN  [k \in 1..Len(added) |-> added[k][2]]

\* a slip in line 107: the id is never added to uniqueIds
filterUniqueForgets(result, uniqueIds) == SelectSeq(result, LAMBDA p : p.id \notin uniqueIds)

\* lines 103-109: the filter callback with its uniqueIds set
RECURSIVE filterUnique(_, _)
filterUnique(result, uniqueIds) ==
    IF result = <<>> THEN <<>>
    ELSE IF Head(result).id \in uniqueIds THEN filterUnique(Tail(result), uniqueIds)
    ELSE <<Head(result)>> \o filterUnique(Tail(result), uniqueIds \cup {Head(result).id})

\* setProductIds(arr): ref tells which object arr is; React keeps the state, and
\* does not run the productIds effect, when it is the object already held
setProductIds(u, arr, ref, act) ==
    IF ref >= 0 /\ ref = pidsRef
    THEN u
    ELSE [u EXCEPT !.productIds = arr, !.pidsRef = ref, !.pidsAct = act,
                   !.pidsChanged = TRUE]

issue(u, body, act) == [u EXCEPT !.inflight = Append(@, fetchData(body, act))]

\* lines 84-88
fieldsEffect(u) == issue(u, [action |-> "get_fields"], 0)

\* a slip in lines 91-96: the early return forgets setIsLoading(false)
productIdsEffectKeepsLoading(u) ==
    IF Len(productIds) = 0
    THEN [u EXCEPT !.isLastPage = TRUE, !.products = <<>>, !.prodAct = pidsAct]
    ELSE issue(u, [action |-> "get_items", params |-> [ids |-> uniq(productIds)]],
               pidsAct)

\* lines 90-114, up to the call of fetchData
productIdsEffect(u) ==
    IF Len(productIds) = 0
    THEN [u EXCEPT !.isLoading = FALSE, !.isLastPage = TRUE, !.products = <<>>,
                   !.prodAct = pidsAct]
    ELSE issue(u, [action |-> "get_items", params |-> [ids |-> uniq(productIds)]],
               pidsAct)

\* lines 128-154
getProductIds(u, searchValue) ==
    LET u1 == [u EXCEPT !.isLoading = TRUE]
    IN  IF Truthy(searchValue)
        THEN IF isSearch
             THEN LET filter == filterRef
                  IN  IF filter = "" THEN u1
                      ELSE [issue(u1, [action |-> "filter",
                                       params |-> [field |-> filter,
                                                   value |-> IF filter = "price"
                                                             THEN parseInt(searchValue)
                                                             ELSE searchValue]],
                                  events)
                              EXCEPT !.isSearch = FALSE]
             ELSE [(IF currentPage + 1 \in DOMAIN arrayOfChunks
                    THEN setProductIds(u1, arrayOfChunks[currentPage + 1], currentPage,
                                       events)
                    ELSE setProductIds(u1, <<>>, -1, events))
                     EXCEPT !.isSearch = FALSE]
        ELSE [issue(u1, [action |-> "get_ids",
                         params |-> [offset |-> currentPage * MAX_ITEMS_PER_PAGE,
                                     limit |-> MAX_ITEMS_PER_PAGE]],
                    events)
                EXCEPT !.isSearch = FALSE]

\* lines 116-118
currentPageEffect(u, searchValue) == getProductIds(u, searchValue)

\* a slip in lines 123-125: the ids are fetched and the page is reset as well
isSearchEffectBoth(u, searchValue) ==
    IF ~isSearch THEN u
    ELSE [getProductIds(u, searchValue) EXCEPT !.currentPage = 0]

\* lines 120-126
isSearchEffect(u, searchValue) ==
    IF ~isSearch THEN u
    ELSE IF currentPage = 0 THEN getProductIds(u, searchValue)
         ELSE [u EXCEPT !.currentPage = 0]

----------------------------------------------------------------------------
(* The state machine *)

NoEvent == [action |-> "none"]

NoSplit == [pc |-> "off"]

\* the first render of App, before its effects have run; the module is loaded
InitApp ==
    /\ currentPage = 0
    /\ isLastPage = TRUE
    /\ isLoading = FALSE
    /\ productIds = <<>>
    /\ products = <<>>
    /\ arrayOfChunks = <<>>
    /\ isSearch = FALSE
    /\ filters = <<>>
    /\ filterRef = "product"
    /\ today = LoadDate
    /\ apiKey = Token(LoadDate)
    /\ inflight = <<>>
    /\ effects = {"mount", "productIds", "currentPage", "isSearch"}
    /\ pidsRef = -1
    /\ events = 0
    /\ pidsAct = 0
    /\ lastEvent = NoEvent
    /\ filterShown = FALSE
    /\ lastAct = 0
    /\ prodAct = 0

Init == InitApp /\ split = NoSplit

\* a promise of fetchData is settled and its callbacks have not run yet
Settled == \E i \in 1..Len(inflight) : inflight[i].status # "pending"

\* nothing is left to run: the browser waits for the user or the network
Idle == effects = {} /\ ~Settled

Remove(seq, i) == SubSeq(seq, 1, i - 1) \o SubSeq(seq, i + 1, Len(seq))

\* one pass of the effects of the last commit, in the order of their declaration
effectsPass(searchValue) ==
    LET u0 == [isLoading |-> isLoading, isLastPage |-> isLastPage,
               products |-> products, productIds |-> productIds,
               pidsRef |-> pidsRef, pidsAct |-> pidsAct, pidsChanged |-> FALSE,
               prodAct |-> prodAct,
               currentPage |-> currentPage, isSearch |-> isSearch,
               inflight |-> inflight]
        u1 == IF "mount" \in effects THEN fieldsEffect(u0) ELSE u0
        u2 == IF "productIds" \in effects THEN productIdsEffect(u1) ELSE u1
        u3 == IF "currentPage" \in effects THEN currentPageEffect(u2, searchValue) ELSE u2
    IN  IF "isSearch" \in effects THEN isSearchEffect(u3, searchValue) ELSE u3

\* React runs the effects of the last commit; searchValue is what the search box
\* holds by then
RunEffects(searchValue) ==
    /\ effects # {}
    /\ \E u \in {effectsPass(searchValue)} :
           /\ isLoading' = u.isLoading
           /\ isLastPage' = u.isLastPage
           /\ products' = u.products
           /\ productIds' = u.productIds
           /\ pidsRef' = u.pidsRef
           /\ pidsAct' = u.pidsAct
           /\ prodAct' = u.prodAct
           /\ currentPage' = u.currentPage
           /\ isSearch' = u.isSearch
           /\ inflight' = u.inflight
           /\ effects' = (IF u.pidsChanged THEN {"productIds"} ELSE {})
                           \cup (IF u.currentPage # currentPage THEN {"currentPage"} ELSE {})
                           \cup (IF u.isSearch # isSearch THEN {"isSearch"} ELSE {})
    /\ UNCHANGED <<arrayOfChunks, filters, filterRef, apiKey, today, events, lastEvent,
                   filterShown, lastAct, split>>

\* an HTTP attempt of call i is answered with a readable body and an ok status
AttemptSucceeds(i) ==
    /\ Idle
    /\ inflight[i].status = "pending"
    /\ inflight' = [inflight EXCEPT ![i] = returnJson(@, Response(@.body))]
    /\ lastEvent' = NoEvent
    /\ UNCHANGED <<uiVars, filterRef, apiKey, today, effects, events, split>>

\* an HTTP attempt of call i fails
AttemptFails(i) ==
    /\ Idle
    /\ inflight[i].status = "pending"
    /\ inflight[i].retryCount = 0 => events < MaxEvents
    /\ \E failure \in Failures : inflight' = [inflight EXCEPT ![i] = catchError(@)]
    /\ events' = (IF inflight[i].retryCount = 0 THEN events + 1 ELSE events)
    /\ lastEvent' = NoEvent
    /\ UNCHANGED <<uiVars, filterRef, apiKey, today, effects, split>>

Handled(r) == [action |-> r.body.action, result |-> r.value.result, ok |-> r.ok,
               attempts |-> r.attempts, act |-> r.act]

\* line 87
ThenGetFields(i) ==
    LET r == inflight[i] IN
    /\ effects = {}
    /\ r.status = "resolved" /\ r.body.action = "get_fields"
    /\ filters' = r.value.result
    /\ inflight' = Remove(inflight, i)
    /\ lastEvent' = Handled(r)
    /\ UNCHANGED <<currentPage, isLastPage, isLoading, productIds, products, arrayOfChunks,
                   isSearch, pidsRef, pidsAct, filterShown, lastAct, prodAct, filterRef,
                   apiKey, today, effects, events, split>>

\* line 151
ThenGetIds(i) ==
    LET r == inflight[i] IN
    /\ effects = {}
    /\ r.status = "resolved" /\ r.body.action = "get_ids"
    /\ productIds' = r.value.result
    /\ pidsRef' = -1
    /\ pidsAct' = r.act
    /\ effects' = {"productIds"}
    /\ inflight' = Remove(inflight, i)
    /\ lastEvent' = Handled(r)
    /\ UNCHANGED <<currentPage, isLastPage, isLoading, products, arrayOfChunks, isSearch,
                   filters, filterShown, lastAct, prodAct, filterRef, apiKey, today,
                   events, split>>

\* lines 139-143
ThenFilter(i) ==
    LET r == inflight[i]
        chunks == splitArray(r.value.result, MAX_ITEMS_PER_PAGE)
    IN
    /\ effects = {}
    /\ r.status = "resolved" /\ r.body.action = "filter"
    /\ arrayOfChunks' = chunks
    /\ productIds' = (IF chunks # <<>> THEN chunks[1] ELSE <<>>)
    /\ pidsRef' = (IF chunks # <<>> THEN 0 ELSE -1)
    /\ pidsAct' = r.act
    /\ effects' = {"productIds"}
    /\ inflight' = Remove(inflight, i)
    /\ lastEvent' = Handled(r)
    /\ filterShown' = TRUE
    /\ UNCHANGED <<currentPage, isLastPage, isLoading, products, isSearch, filters,
                   lastAct, prodAct, filterRef, apiKey, today, events, split>>

\* lines 102-113
ThenGetItems(i) ==
    LET r == inflight[i]
        result == r.value.result
    IN
    /\ effects = {}
    /\ r.status = "resolved" /\ r.body.action = "get_items"
    /\ products' = filterUnique(result, {})
    /\ isLastPage' = (Len(result) < MAX_ITEMS_PER_PAGE)
    /\ isLoading' = FALSE
    /\ prodAct' = r.act
    /\ inflight' = Remove(inflight, i)
    /\ lastEvent' = Handled(r)
    /\ UNCHANGED <<currentPage, productIds, arrayOfChunks, isSearch, filters, pidsRef,
                   pidsAct, filterShown, lastAct, filterRef, apiKey, today, effects, events,
                   split>>

\* line 198: the search button
ClickSearch ==
    /\ Idle /\ FormRendered /\ events < MaxEvents
    /\ isSearch' = TRUE
    /\ effects' = (IF isSearch THEN {} ELSE {"isSearch"})
    /\ events' = events + 1
    /\ lastEvent' = NoEvent
    /\ filterShown' = FALSE
    /\ lastAct' = events + 1
    /\ UNCHANGED <<currentPage, isLastPage, isLoading, productIds, products, arrayOfChunks,
                   filters, pidsRef, pidsAct, prodAct, filterRef, apiKey, today, inflight,
                   split>>

\* a slip in line 214: Back is disabled for currentPage < 0 only
ClickPageBackAtZero(delta) ==
    /\ Idle /\ events < MaxEvents
    /\ ~isLoading
    /\ IF delta = -1 THEN currentPage >= 0 ELSE ~isLastPage
    /\ currentPage' = currentPage + delta
    /\ effects' = {"currentPage"}
    /\ events' = events + 1
    /\ lastEvent' = NoEvent
    /\ lastAct' = events + 1
    /\ UNCHANGED <<isLastPage, isLoading, productIds, products, arrayOfChunks, isSearch,
                   filters, pidsRef, pidsAct, prodAct, filterShown, filterRef, apiKey, today,
                   inflight, split>>

\* lines 212-218 and 219-225: the page buttons, delta -1 for Back and 1 for Forward
ClickPage(delta) ==
    /\ Idle /\ events < MaxEvents
    /\ ~isLoading
    /\ IF delta = -1 THEN currentPage > 0 ELSE ~isLastPage
    /\ currentPage' = currentPage + delta
    /\ effects' = {"currentPage"}
    /\ events' = events + 1
    /\ lastEvent' = NoEvent
    /\ lastAct' = events + 1
    /\ UNCHANGED <<isLastPage, isLoading, productIds, products, arrayOfChunks, isSearch,
                   filters, pidsRef, pidsAct, prodAct, filterShown, filterRef, apiKey, today,
                   inflight, split>>

\* lines 156-167; filterValue "" stands for null.  The handler also empties the
\* search box and sets its type
handleSelectChange(filterValue) ==
    /\ Idle /\ FormRendered /\ events < MaxEvents
    /\ filterValue # filterRef
    /\ filterRef' = filterValue
    /\ events' = events + 1
    /\ lastEvent' = NoEvent
    /\ UNCHANGED <<uiVars, apiKey, today, inflight, effects, split>>

\* UTC midnight passes
Midnight ==
    /\ Idle /\ events < MaxEvents
    /\ \E k \in 0..(MaxDayTicks - 1) : today = AddDays(LoadDate, k)
    /\ today' = NextDay(today)
    /\ events' = events + 1
    /\ lastEvent' = NoEvent
    /\ UNCHANGED <<uiVars, filterRef, apiKey, inflight, effects, split>>

Next ==
    \/ \E searchValue \in SearchValues : RunEffects(searchValue)
    \/ \E i \in 1..Len(inflight) : AttemptSucceeds(i)
    \/ \E i \in 1..Len(inflight) : AttemptFails(i)
    \/ \E i \in 1..Len(inflight) : ThenGetFields(i)
    \/ \E i \in 1..Len(inflight) : ThenGetIds(i)
    \/ \E i \in 1..Len(inflight) : ThenFilter(i)
    \/ \E i \in 1..Len(inflight) : ThenGetItems(i)
    \/ ClickSearch
    \/ \E delta \in {-1, 1} : ClickPage(delta)
    \/ \E filterValue \in Range(filters) \cup {""} : handleSelectChange(filterValue)
    \/ Midnight

Spec == Init /\ [][Next]_vars

\* what the browser does on its own: React runs the effects and the callbacks,
\* every HTTP attempt is answered or fails
Browser ==
    \/ \E searchValue \in SearchValues : RunEffects(searchValue)
    \/ \E i \in 1..Len(inflight) :
          \/ AttemptSucceeds(i) \/ AttemptFails(i)
          \/ ThenGetFields(i) \/ ThenGetIds(i) \/ ThenFilter(i) \/ ThenGetItems(i)

FairSpec == Spec /\ WF_vars(Browser)

----------------------------------------------------------------------------
(* splitArray on its own: a call with any array and any chunk size >= 1 *)

RECURSIVE SeqsUpTo(_, _)
SeqsUpTo(S, n) ==
    IF n = 0 THEN {<<>>}
    ELSE LET shorter == SeqsUpTo(S, n - 1)
         IN  shorter \cup {Append(q, x) : q \in {t \in shorter : Len(t) = n - 1}, x \in S}

SplitInit ==
    /\ InitApp
    /\ split \in {[pc |-> "call", arr |-> arr, chunkSize |-> n, chunks |-> <<>>] :
                    arr \in SeqsUpTo({1, 2}, MaxSplitLen), n \in 1..MaxSplitChunk}

SplitCall ==
    /\ split.pc = "call"
    /\ split' = [split EXCEPT !.pc = "done", !.chunks = splitArray(split.arr, split.chunkSize)]
    /\ UNCHANGED <<uiVars, filterRef, apiKey, today, inflight, effects, events, lastEvent>>

SplitSpec == SplitInit /\ [][SplitCall]_vars

----------------------------------------------------------------------------
(* What App renders, lines 228-232 *)

View == IF isLoading THEN "progress" ELSE IF Len(products) = 0 THEN "none found" ELSE "table"

\* the positions of the calls in flight
Calls == 1..Len(inflight)

IsArray(a) == DOMAIN a = 1..Len(a)

----------------------------------------------------------------------------
(* Claims *)

\* C1: a call of fetchData makes at most 1 + MAX_CONNECTIONS_RETRY HTTP attempts;
\* it resolves to the parsed body of the attempt that succeeded, which is its last
\* attempt, and to the sentinel {result: []} only after 1 + MAX_CONNECTIONS_RETRY
\* attempts have failed.
C1_RetryCap ==
    \A i \in Calls :
        LET r == inflight[i] IN
        /\ r.attempts <= 1 + MAX_CONNECTIONS_RETRY
        /\ r.attempts = r.retryCount + 1
        /\ (r.status = "resolved" /\ r.ok) => r.value = Response(r.body)
        /\ (r.status # "pending" /\ ~r.ok) =>
              /\ r.status = "resolved"
              /\ r.value = Sentinel
              /\ r.attempts = 1 + MAX_CONNECTIONS_RETRY

\* a call has used up its retries and is resolved to the sentinel
C1_Witness ==
    \E i \in Calls :
        /\ inflight[i].status = "resolved" /\ ~inflight[i].ok
        /\ inflight[i].attempts = 1 + MAX_CONNECTIONS_RETRY

\* C2: no call of fetchData is ever rejected, every .then handler that runs is
\* given an object with a result array, and every call in flight is eventually
\* resolved and handled: the calls in flight (get_fields, get_ids, filter,
\* get_items) eventually all have had their handler run.
C2_AlwaysResolves ==
    /\ [](\A i \in Calls : inflight[i].status # "rejected")
    /\ [](lastEvent.action # "none" => IsArray(lastEvent.result))
    /\ (inflight # <<>>) ~> (inflight = <<>>)

\* the handler of a filter call has run with the sentinel, after four failures
C2_Witness ==
    lastEvent.action = "filter" /\ ~lastEvent.ok /\ lastEvent.result = <<>>

\* C3: splitArray(arr, n) for n >= 1 returns contiguous groups whose concatenation
\* is arr, all of n elements but the last, which has 1..n; there are
\* ceil(len(arr)/n) groups, none for an empty arr.
C3_SplitArray ==
    split.pc = "done" =>
        LET arr == split.arr
            n == split.chunkSize
            chunks == split.chunks
        IN  /\ Flatten(chunks) = arr
            /\ \A i \in 1..(Len(chunks) - 1) : Len(chunks[i]) = n
            /\ chunks # <<>> => Len(chunks[Len(chunks)]) \in 1..n
            /\ Len(chunks) = (Len(arr) + n - 1) \div n
            /\ arr = <<>> => chunks = <<>>

\* a call that ends with a short group after a full one
C3_Witness ==
    /\ split.pc = "done"
    /\ Len(split.chunks) = 2
    /\ Len(split.chunks[2]) < split.chunkSize

\* C4: once the sentinel of a get_ids, filter or get_items call has been handled
\* and the effects it caused have run, App shows "none found": isLoading is false,
\* products is empty and isLastPage is true.
C4_SentinelShowsNoneFound ==
    (/\ lastEvent.action \in {"get_ids", "filter", "get_items"}
     /\ ~lastEvent.ok
     /\ effects = {})
    => (~isLoading /\ products = <<>> /\ isLastPage /\ View = "none found")

\* the sentinel of a get_items call, handled while products were shown
C4_Witness ==
    /\ lastEvent.action = "get_items" /\ ~lastEvent.ok /\ effects = {}
    /\ currentPage = 1

\* C5 as claimed: at most one call is in flight at a time.
C5_OneInFlight == Len(inflight) <= 1

\* C5 as amended: at most one call per user action is in flight at a time (the
\* get_items call of an id page is made after the get_ids or filter call of that
\* page has been handled), but for the mount, whose get_fields call is in flight
\* together with its get_ids or get_items call.
C5_OnePerAction ==
    \A i, j \in Calls :
        (i < j /\ inflight[i].act = inflight[j].act) =>
            /\ inflight[i].act = 0
            /\ inflight[i].body.action = "get_fields"
            /\ inflight[j].body.action # "get_fields"

\* the calls of two user actions are in flight together
C5_Witness ==
    \E i, j \in Calls :
        /\ inflight[i].act # inflight[j].act
        /\ inflight[i].body.action # "get_fields"
        /\ inflight[j].body.action # "get_fields"

\* C6: the X-Auth header of every HTTP attempt is the hash of the secret and of
\* the UTC date on which the attempt is sent.
C6_TokenOfTheDay == \A i \in Calls : inflight[i].xAuth = Token(inflight[i].sentOn)

\* C7: the id page holds at most MAX_ITEMS_PER_PAGE ids: the result of a get_ids
\* call as received, the first MAX_ITEMS_PER_PAGE ids of a filter result, or a
\* chunk of arrayOfChunks.
C7_IdPage ==
    /\ Len(productIds) <= MAX_ITEMS_PER_PAGE
    /\ lastEvent.action = "get_ids" => productIds = lastEvent.result
    /\ lastEvent.action = "filter" =>
          productIds = SubSeq(lastEvent.result, 1,
                              Min(MAX_ITEMS_PER_PAGE, Len(lastEvent.result)))
    /\ pidsRef >= 0 => productIds = arrayOfChunks[pidsRef + 1]

\* a full id page that is the first chunk of a longer filter result
C7_Witness ==
    /\ lastEvent.action = "filter"
    /\ Len(lastEvent.result) > MAX_ITEMS_PER_PAGE
    /\ Len(productIds) = MAX_ITEMS_PER_PAGE

\* the entries of a get_items result whose id does not occur earlier in it
RECURSIVE FirstOccurrences(_, _)
FirstOccurrences(result, i) ==
    IF i > Len(result) THEN <<>>
    ELSE (IF \E j \in 1..(i - 1) : result[j].id = result[i].id
          THEN <<>> ELSE <<result[i]>>) \o FirstOccurrences(result, i + 1)

\* C8: no two products shown have the same id; after a get_items response the
\* products are the entries of the response whose id does not occur earlier in
\* it, in the order of the response.
C8_UniqueProducts ==
    /\ \A i, j \in 1..Len(products) : products[i].id = products[j].id => i = j
    /\ lastEvent.action = "get_items" => products = FirstOccurrences(lastEvent.result, 1)

\* a response with two products under one id has been handled
C8_Witness ==
    /\ lastEvent.action = "get_items"
    /\ Len(products) = MAX_ITEMS_PER_PAGE
    /\ Len(lastEvent.result) > Len(products)

\* C9: when a filter response r has been handled, arrayOfChunks is splitArray(r),
\* the current page is 0 and the id page is the first chunk of r, or empty.
C9_FilterRecomputesPages ==
    lastEvent.action = "filter" =>
        /\ arrayOfChunks = splitArray(lastEvent.result, MAX_ITEMS_PER_PAGE)
        /\ currentPage = 0
        /\ productIds = SubSeq(lastEvent.result, 1,
                               Min(MAX_ITEMS_PER_PAGE, Len(lastEvent.result)))

\* C10: while a filter result is shown (a filter response has been handled and
\* the search button has not been clicked since), the effect of a page change
\* sets the id page to the chunk of the new page and makes no call.
C10_ClientSidePaging ==
    [][(effects = {"currentPage"} /\ ~isSearch /\ filterShown) =>
          /\ productIds' = (IF currentPage + 1 \in DOMAIN arrayOfChunks
                            THEN arrayOfChunks[currentPage + 1] ELSE <<>>)
          /\ inflight' = inflight]_vars

\* C11: whenever the progress bar is shown (isLoading is true, as after every page
\* change and search click once its effects have run), isLoading eventually
\* returns to false, given that the browser keeps running effects and callbacks
\* and every HTTP attempt is answered or fails.
C11_LoadingEnds == isLoading ~> ~isLoading

\* every call has been handled, no effect is left to run and the progress bar is
\* not shown
Quiet == inflight = <<>> /\ effects = {} /\ ~isLoading

\* C12: once all requests have resolved, the id page and the products displayed
\* are those of the most recent user action (page change or search click), or of
\* the mount when there was none.
C12_LatestActionWins == Quiet => (pidsAct = lastAct /\ prodAct = lastAct)

\* the Forward button is enabled (line 221) in a render the user can click in:
\* its effects have run and no promise callback is waiting
ForwardEnabled == Idle /\ ~isLoading /\ ~isLastPage

\* the page after the current one holds an id: a chunk of the stored filter result
\* when the id page is one of its chunks, ids of the catalogue past the offset of
\* the next page otherwise
NextPageExists ==
    IF pidsRef >= 0
    THEN currentPage + 2 \in DOMAIN arrayOfChunks
    ELSE Len(Catalogue) > MAX_ITEMS_PER_PAGE * (currentPage + 1)

\* C13: whenever the Forward button is enabled, a next page with at least one id
\* exists.
C13_ForwardHasNextPage == ForwardEnabled => NextPageExists

\* the unfiltered catalogue is displayed: no filter response has been handled
\* since the last click on the search button and no filter call is in flight
Unfiltered == ~filterShown /\ \A i \in Calls : inflight[i].body.action # "filter"

\* C14: while the unfiltered catalogue is displayed, the effect of a page change
\* to page p issues get_ids with offset 50 * p and limit 50, whatever the search
\* box holds.
C14_CataloguePaging ==
    [][(effects = {"currentPage"} /\ ~isSearch /\ Unfiltered) =>
          /\ Len(inflight') = Len(inflight) + 1
          /\ inflight'[Len(inflight')].body =
                [action |-> "get_ids",
                 params |-> [offset |-> MAX_ITEMS_PER_PAGE * currentPage,
                             limit |-> MAX_ITEMS_PER_PAGE]]]_vars

\* C15: while a get_ids, filter or get_items request is pending, isLoading is true:
\* the progress bar is rendered in place of the table and of "none found", and
\* the page buttons are disabled.
C15_LoadingWhilePending ==
    (\E i \in Calls :
        /\ inflight[i].status = "pending"
        /\ inflight[i].body.action \in {"get_ids", "filter", "get_items"})
    => (isLoading /\ View = "progress")

\* C16: currentPage is never negative; a step that lowers it is a click on Back
\* made with currentPage > 0 and isLoading false, or the isSearch effect resetting
\* it to 0; and the pass of the effects that follows a search click leaves the
\* page at 0.
C16_PageNotNegative ==
    /\ [](currentPage >= 0)
    /\ [][currentPage' < currentPage =>
            \/ isSearch /\ effects # {} /\ currentPage' = 0
            \/ effects = {} /\ currentPage > 0 /\ ~isLoading
                 /\ currentPage' = currentPage - 1]_vars
    /\ [][(isSearch /\ "isSearch" \in effects) => currentPage' = 0]_vars

\* Back has just been clicked on page 1, after a Forward: the page is 0 again
C16_Witness ==
    currentPage = 0 /\ effects = {"currentPage"} /\ lastAct = 2 /\ ~isSearch

====
